---- MODULE Spec2Model ----
(***************************************************************************)
(* State-machine model of bot_concursos.py: one poll of the PCI Concursos  *)
(* listing (load, prune, fetch, extract, reconcile, save, notify), run     *)
(* again and again over a persisted file, a calendar clock and a webhook.  *)
(*                                                                         *)
(* Representation.                                                         *)
(*   Python None / a missing match   the empty sequence << >>              *)
(*   a present optional value v      the one-element sequence <<v>>        *)
(*   a date                          its day number (an integer)           *)
(*   "DD/MM/YYYY" text               [fmt |-> "dmy", valid, day]           *)
(*   "YYYY-MM-DD" text               [fmt |-> "iso", day]                  *)
(*   a URL on the listing's host     [host, path]                          *)
(*   a dict                          a record; a JSON value that is not a  *)
(*                                   dict is the record [scalar |-> ...]   *)
(*   concursos.json                  [exists, items, complete]: complete   *)
(*                                   is FALSE while the JSON text lacks    *)
(*                                   its end (json.load then fails)        *)
(*                                                                         *)
(* Of the optional fields of a record, vacancies is modelled; salary_text, *)
(* salary_value and official_link travel the same way and are left out.    *)
(* Each definition named x_wrong, x_last, x_append or x_rollback is a      *)
(* faulty variant of x, kept to see that a property depends on x.          *)
(***************************************************************************)
EXTENDS Integers, Sequences, FiniteSets, TLC

VARIABLES
    file,        \* concursos.json on disk
    clock,       \* date.today() of the environment
    webhook,     \* what os.getenv("DISCORD_WEBHOOK") gave the run: set or not
    pc,          \* position of the run
    existing,    \* main: existing
    today,       \* main: today
    cleaned,     \* main: cleaned
    html,        \* main: html; between runs, the body the last poll accepted
                 \* if that poll ran to its end and the site still serves it,
                 \* << >> otherwise
    base_url,    \* extract_contests: base_url
    scraped,     \* main: scraped
    new_items,   \* main: new_items
    updated,     \* main: updated
    i,           \* send_discord: loop index
    sent,        \* webhook posts of send_discord in this run: [embeds, status]
    errors,      \* fetch_page: errors of the run that failed
    errorPosts,  \* webhook posts of send_error_discord in this run
    fileBefore,  \* history: file when the run started
    unchanged    \* history: the body this poll accepted is, byte for byte, the
                 \* body the poll before it accepted

vars == <<file, clock, webhook, pc, existing, today, cleaned, html, base_url,
          scraped, new_items, updated, i, sent, errors, errorPosts,
          fileBefore, unchanged>>

---------------------------------------------------------------------------
\* Bounds of the model

\* days are 0..MaxDay
MaxDay == 1
\* containers in a body fetched by a poll
MaxPollContainers == 1
\* containers in a body handed to extract_contests alone
MaxContainers == 3
\* records handed to send_discord alone
MaxItems == 21
\* items of a stored sequence handed to the prune step alone
MaxExisting == 3

Days == 0..MaxDay

---------------------------------------------------------------------------
\* Program constants

URLS ==
    << "https://www.pciconcursos.com.br/concursos/sudeste/sp/",
       "https://www.pciconcursos.com.br/concursos/sudeste/sp",
       "https://www.pciconcursos.com.br/concursos/sudeste/",
       "https://www.pciconcursos.com.br/concursos/sp/",
       "https://www.pciconcursos.com.br/concursos/sp" >>

\* range(0, len(new_items), 10) and new_items[i : i + 10]
ChunkSize == 10

PciHost == "https://www.pciconcursos.com.br"

\* "sudeste" in base_url
HasSudeste(url) == url \in {URLS[1], URLS[2], URLS[3]}

\* "/sp" in base_url
HasSlashSp(url) == url \in {URLS[1], URLS[2], URLS[4], URLS[5]}

Range(s) == {s[k] : k \in DOMAIN s}

Min(a, b) == IF a <= b THEN a ELSE b

\* s[lo : hi] of Python (0-based, hi exclusive, clipped to the length)
Slice(s, lo, hi) == SubSeq(s, lo + 1, Min(hi, Len(s)))

SeqsUpTo(S, n) == UNION {[1..k -> S] : k \in 0..n}

---------------------------------------------------------------------------
\* Dates and their text forms

Dmy(d) == [fmt |-> "dmy", valid |-> TRUE, day |-> d]

\* a text such as 32/13/2024: it matches DATE_PATTERN and is no calendar date
BadDmy == [fmt |-> "dmy", valid |-> FALSE, day |-> 0]

\* date.isoformat()
isoformat(d) == [fmt |-> "iso", day |-> d]

\* datetime.strptime(date_text, "%d/%m/%Y").date(); ValueError gives None
strptime(date_text) ==
    IF date_text.fmt = "dmy" /\ date_text.valid THEN <<date_text.day>> ELSE << >>

\* datetime.fromisoformat(text).date(); ValueError gives None
fromisoformat(text) ==
    IF text.fmt = "iso" THEN <<text.day>> ELSE << >>

\* date.strftime("%d/%m/%Y")
strftime(d) == Dmy(d)

---------------------------------------------------------------------------
\* Field parsers.  A text is [labelled, first, sp, vacancies]:
\*   labelled   the date right after "Inscrições até", if any
\*   first      the first match of DATE_PATTERN in the text, if any
\*   sp         the text matches \bSP\b|São Paulo
\*   vacancies  the number before the first "vaga(s)", if any

parse_date(text) ==
    LET labelled == text.labelled
        date_text == IF labelled # << >> THEN labelled ELSE text.first
    IN  IF date_text = << >> THEN << >> ELSE strptime(date_text[1])

parse_vacancies(text) == text.vacancies

\* urljoin(base_url, href): an href with a host is absolute, one without is
\* resolved against the host of base_url (every URL of URLS is on PciHost)
urljoin(url, href) ==
    IF href.host # << >>
    THEN [host |-> href.host[1], path |-> href.path]
    ELSE [host |-> PciHost, path |-> href.path]

---------------------------------------------------------------------------
\* Persistence

NoFile == [exists |-> FALSE, items |-> << >>, complete |-> FALSE]

\* open(DATA_FILE, "w"): the file exists and is empty
truncated == [exists |-> TRUE, items |-> << >>, complete |-> FALSE]

\* the text json.dump has produced when only the first k items are on disk
partial_dump(items, k) ==
    [exists |-> TRUE, items |-> SubSeq(items, 1, k), complete |-> FALSE]

\* the whole text of json.dump(items, file), flushed by the end of the with block
json_dump(items) == [exists |-> TRUE, items |-> items, complete |-> TRUE]

load_data(f) ==
    IF ~f.exists THEN << >>
    ELSE IF ~f.complete THEN << >>      \* json.JSONDecodeError
    ELSE f.items

isdict(item) == "scalar" \notin DOMAIN item

\* item.get("link")
get_link(item) == IF "link" \in DOMAIN item THEN <<item.link>> ELSE << >>

---------------------------------------------------------------------------
\* main: the prune loop over existing

\* end_date of a stored item as main reads it; None when it has none
stored_end_date(item) ==
    IF isdict(item) /\ "end_date" \in DOMAIN item /\ item.end_date.fmt # "empty"
    THEN fromisoformat(item.end_date)
    ELSE << >>

\* keep with > for >=
keep_wrong(item, day) ==
    LET end_date == stored_end_date(item)
    IN  end_date = << >> \/ end_date[1] > day

\* if end_date is None or end_date >= today
keep(item, day) ==
    LET end_date == stored_end_date(item)
    IN  end_date = << >> \/ end_date[1] >= day

prune(items, day) == SelectSeq(items, LAMBDA item : keep(item, day))

---------------------------------------------------------------------------
\* extract_contests.  A body is a sequence of nodes
\*   [kind, anchor, text, parent_sp]
\* kind is "div.ca" or "li" (ul li, table tr); anchor is the first <a href>
\* of the node, [href, text], if any; text is the node's text as the field
\* parsers see it; parent_sp: the parent's text matches \bSP\b|São Paulo.

\* "concursos" in href: path 0 stands for a path outside /concursos/
HrefHasConcursos(href) == href.path # 0

\* "Concurso" in text
TitleHasConcurso(title) == title \in {"Concurso Guarulhos"}

\* lines 101-110: div.ca, or else the list items and table rows that look
\* like contests
locate(body) ==
    LET ca == SelectSeq(body, LAMBDA n : n.kind = "div.ca")
    IN  IF ca # << >> THEN ca
        ELSE SelectSeq(body, LAMBDA n :
                 /\ n.kind = "li"
                 /\ n.anchor # << >>
                 /\ \/ HrefHasConcursos(n.anchor[1].href)
                    \/ TitleHasConcurso(n.anchor[1].text))

\* dict_set on a list: always appends
dict_set_append(contests, item) == Append(contests, item)

\* contests[link] = item on an insertion-ordered dict kept as a sequence
dict_set(contests, item) ==
    IF \E k \in DOMAIN contests : contests[k].link = item.link
    THEN [k \in DOMAIN contests |->
              IF contests[k].link = item.link THEN item ELSE contests[k]]
    ELSE Append(contests, item)

\* is_expired with the comparison turned round
is_expired_wrong(end_date, day) == end_date > day

\* end_date < date.today()
is_expired(end_date, day) == end_date < day

RECURSIVE extract_loop(_, _, _, _, _)
\* lines 111-147
extract_loop(containers, url, filter_sp, day, contests) ==
    IF containers = << >> THEN contests
    ELSE
    LET container == Head(containers)
        skip == extract_loop(Tail(containers), url, filter_sp, day, contests)
    IN  IF container.anchor = << >> THEN skip
        ELSE
        LET anchor == container.anchor[1]
            title == anchor.text
            text == container.text
            sp_match == text.sp \/ container.parent_sp
            end_date == parse_date(text)
        IN  IF title = "" THEN skip
            ELSE IF filter_sp /\ ~sp_match THEN skip
            ELSE IF end_date = << >> THEN skip
            ELSE IF is_expired(end_date[1], day) THEN skip
            ELSE extract_loop(Tail(containers), url, filter_sp, day,
                     dict_set(contests,
                         [title |-> title,
                          link |-> urljoin(url, anchor.href),
                          end_date |-> isoformat(end_date[1]),
                          vacancies |-> parse_vacancies(text),
                          raw_text |-> text]))

extract_contests(body, url, filter_sp, day) ==
    extract_loop(locate(body), url, filter_sp, day, << >>)

\* main line 279
filter_sp_of(url) == HasSudeste(url) /\ ~HasSlashSp(url)

---------------------------------------------------------------------------
\* main: reconciliation

\* {item.get("link") for item in cleaned if isinstance(item, dict)}
existing_links(items) == {get_link(items[k]) : k \in {j \in DOMAIN items : isdict(items[j])}}

\* [item for item in scraped if item["link"] not in existing_links]
select_new(items, links) == SelectSeq(items, LAMBDA item : <<item.link>> \notin links)

build_persisted_item(item) ==
    IF item.vacancies # << >>
    THEN [title |-> item.title, link |-> item.link, end_date |-> item.end_date,
          vacancies |-> item.vacancies[1]]
    ELSE [title |-> item.title, link |-> item.link, end_date |-> item.end_date]

build_all(items) == [k \in DOMAIN items |-> build_persisted_item(items[k])]

---------------------------------------------------------------------------
\* send_discord: the embed of one item (lines 207-257)

embed(item) ==
    LET end_date == strftime(fromisoformat(item.end_date)[1])
        deadline == <<[name |-> "Inscrições até", value |-> <<end_date>>]>>
        vagas == IF item.vacancies # << >> /\ item.vacancies[1] # 0
                 THEN <<[name |-> "Vagas", value |-> item.vacancies]>>
                 ELSE << >>
    IN  [title |-> item.title, url |-> item.link, fields |-> deadline \o vagas]

\* chunk with one record too many
chunk_wrong(items, start) == Slice(items, start, start + ChunkSize + 1)

\* new_items[i : i + 10]
chunk(items, start) == Slice(items, start, start + ChunkSize)

embeds_of(items) == [k \in DOMAIN items |-> embed(items[k])]

---------------------------------------------------------------------------
\* fetch_page: responses of the endpoints

\* a response: [exc, status, html]; exc: requests.get raised RequestException
Exception == [exc |-> TRUE, status |-> 0, html |-> << >>]

Response(status, body) == [exc |-> FALSE, status |-> status, html |-> body]

\* bool(soup.select("div.ca")) or bool(DATE_PATTERN.search(html))
has_contests(body) ==
    \/ \E k \in DOMAIN body : body[k].kind = "div.ca"
    \/ \E k \in DOMAIN body : body[k].text.first # << >>

accepted(r) == ~r.exc /\ r.status = 200 /\ has_contests(r.html)

\* the entry fetch_page appends to errors for a response it does not accept
fetch_error(url, r) ==
    IF r.exc THEN [url |-> url, reason |-> "RequestException"]
    ELSE IF r.status = 200
         THEN [url |-> url, reason |-> "página sem concursos detectáveis"]
         ELSE [url |-> url, reason |-> ToString(r.status)]

\* fetch_errors that keeps the last entry only
fetch_errors_last(fails) ==
    <<fetch_error(URLS[Len(URLS)], fails[Len(URLS)])>>

\* errors, after the loop of fetch_page has gone through URLS without
\* accepting a response; fails[k] is the response of URLS[k]
fetch_errors(fails) ==
    [k \in 1..Len(URLS) |-> fetch_error(URLS[k], fails[k])]

---------------------------------------------------------------------------
\* Inputs of the model

Title1 == "Prefeitura de Campinas"
Title2 == "PREFEITURA  DE CAMPINAS"

Text(labelled, first, sp, vacancies) ==
    [labelled |-> labelled, first |-> first, sp |-> sp, vacancies |-> vacancies]

Anchor(href, text) == [href |-> href, text |-> text]

\* href="/concursos/<path>"
RelHref(path) == [host |-> << >>, path |-> path]

\* href="https://www.pciconcursos.com.br/concursos/<path>"
AbsHref(path) == [host |-> <<PciHost>>, path |-> path]

Node(kind, anchor, text, parent_sp) ==
    [kind |-> kind, anchor |-> anchor, text |-> text, parent_sp |-> parent_sp]

\* what DATE_PATTERN can find first in a text: nothing, an invalid date, a date
FirstDates == {<< >>, <<BadDmy>>} \cup {<<Dmy(d)>> : d \in Days}

\* the containers of the pages the polls fetch
PollContainers ==
    {Node("div.ca", <<Anchor(RelHref(path), title)>>,
          Text(<< >>, first, TRUE, << >>), FALSE) :
        path \in {1, 2}, title \in {Title1}, first \in FirstDates}

PollBodies == SeqsUpTo(PollContainers, MaxPollContainers)

\* the responses an endpoint can give
OkResponses == {Response(200, body) : body \in {b \in PollBodies : has_contests(b)}}

FailResponses == {Exception, Response(503, << >>), Response(200, << >>)}

\* the containers of the bodies handed to extract_contests alone
ExtractContainers ==
    LET future == <<Dmy(MaxDay)>>
        past == <<Dmy(0)>>
        plain == Text(<< >>, future, TRUE, << >>)
    IN  { Node("div.ca", <<Anchor(RelHref(1), Title1)>>, plain, FALSE),
          Node("div.ca", <<Anchor(AbsHref(1), Title2)>>,
               Text(<< >>, future, TRUE, <<3>>), FALSE),
          Node("div.ca", <<Anchor(RelHref(2), Title1)>>,
               Text(<< >>, future, FALSE, << >>), FALSE),
          Node("div.ca", <<Anchor(RelHref(2), Title2)>>,
               Text(<< >>, future, FALSE, <<0>>), TRUE),
          Node("div.ca", << >>, plain, FALSE),
          Node("div.ca", <<Anchor(RelHref(2), "")>>, plain, FALSE),
          Node("div.ca", <<Anchor(RelHref(2), Title1)>>,
               Text(<< >>, past, TRUE, << >>), FALSE),
          Node("div.ca", <<Anchor(RelHref(1), Title1)>>,
               Text(<< >>, <<BadDmy>>, TRUE, << >>), FALSE),
          Node("div.ca", <<Anchor(RelHref(1), Title2)>>,
               Text(<< >>, << >>, TRUE, << >>), FALSE),
          Node("div.ca", <<Anchor(RelHref(3), Title1)>>,
               Text(future, past, TRUE, << >>), FALSE),
          Node("li", <<Anchor(RelHref(2), Title2)>>, plain, FALSE),
          Node("li", <<Anchor(RelHref(0), Title1)>>, plain, FALSE) }

ExtractBodies == SeqsUpTo(ExtractContainers, MaxContainers)

\* the stored items handed to the prune step alone
StoredItems ==
    LET link == [host |-> PciHost, path |-> 1]
    IN  {[title |-> Title1, link |-> link, end_date |-> isoformat(d)] : d \in Days}
        \cup
        { [title |-> Title1, link |-> link, end_date |-> Dmy(MaxDay)],
          [title |-> Title1, link |-> link, end_date |-> [fmt |-> "empty"]],
          [title |-> Title1, link |-> link],
          [scalar |-> "texto"] }

\* the n records handed to send_discord alone
ItemList(n) ==
    [k \in 1..n |->
        [title |-> Title1,
         link |-> [host |-> PciHost, path |-> k],
         end_date |-> isoformat(MaxDay),
         vacancies |-> IF k % 2 = 0 THEN <<k>> ELSE << >>,
         raw_text |-> Text(<< >>, <<Dmy(MaxDay)>>, TRUE, << >>)]]

\* status codes of the webhook: accepted, refused
Statuses == {204, 400}

\* in place of a status: requests.post raised, there is no response
Raised == -1

---------------------------------------------------------------------------
\* The run of main()

Init ==
    /\ file = NoFile
    /\ clock = 0
    /\ webhook = FALSE
    /\ pc = "idle"
    /\ existing = << >>
    /\ today = 0
    /\ cleaned = << >>
    /\ html = << >>
    /\ base_url = URLS[1]
    /\ scraped = << >>
    /\ new_items = << >>
    /\ updated = << >>
    /\ i = 0
    /\ sent = << >>
    /\ errors = << >>
    /\ errorPosts = << >>
    /\ fileBefore = NoFile
    /\ unchanged = FALSE

\* a night passes.  The run reads the date in main (line 265) and again in
\* extract_contests (line 131); nothing after the extraction reads it.
Tick ==
    /\ pc \in {"idle", "fetch"}
    /\ clock < MaxDay
    /\ clock' = clock + 1
    /\ UNCHANGED <<file, webhook, pc, existing, today, cleaned, html, base_url,
                   scraped, new_items, updated, i, sent, errors, errorPosts,
                   fileBefore, unchanged>>

\* the site publishes another page: the next poll fetches whatever it serves
SiteChanges ==
    /\ pc = "idle"
    /\ html # << >>
    /\ html' = << >>
    /\ UNCHANGED <<file, clock, webhook, pc, existing, today, cleaned, base_url,
                   scraped, new_items, updated, i, sent, errors, errorPosts,
                   fileBefore, unchanged>>

\* main, lines 264-277
LoadAndPrune ==
    /\ pc = "idle"
    /\ existing' = load_data(file)
    /\ today' = clock
    /\ cleaned' = prune(existing', today')
    /\ fileBefore' = file
    /\ pc' = "fetch"
    /\ UNCHANGED <<file, clock, webhook, html, base_url, scraped, new_items,
                   updated, i, sent, errors, errorPosts, unchanged>>

\* main, lines 278-297: fetch_page returns the first accepted response, after
\* k endpoints that failed
FetchAndReconcile ==
    /\ pc = "fetch"
    /\ \E k \in 0..(Len(URLS) - 1) :
       \E r \in IF html = << >> THEN OkResponses ELSE {Response(200, html)} :
        LET url == URLS[k + 1]
        IN  /\ accepted(r)
            /\ html' = r.html
            /\ unchanged' = (html # << >>)
            /\ scraped' = extract_contests(r.html, url, filter_sp_of(url), clock)
    /\ new_items' = select_new(scraped', existing_links(cleaned))
    /\ updated' = cleaned \o build_all(new_items')
    /\ pc' = "save"
    /\ UNCHANGED <<file, clock, webhook, existing, today, cleaned, base_url, i,
                   sent, errors, errorPosts, fileBefore>>

\* fetch_page, lines 171-188, when no endpoint is accepted (the site is down
\* or serves pages without contests), with send_error_discord (lines 151-166):
\* the message is posted if the webhook is set; then the run ends by an
\* exception, RuntimeError or the one requests.post raised.  A site that
\* fails no longer serves the body of the last poll: html = << >>.
FetchFail ==
    /\ pc = "fetch"
    /\ html = << >>
    /\ \E fails \in [1..Len(URLS) -> FailResponses] :
        /\ \A k \in 1..Len(URLS) : ~accepted(fails[k])
        /\ errors' = fetch_errors(fails)
    /\ webhook' \in BOOLEAN
    /\ errorPosts' = IF webhook' THEN <<errors'>> ELSE << >>
    /\ pc' = "fatal"
    /\ UNCHANGED <<file, clock, existing, today, cleaned, html, base_url,
                   scraped, new_items, updated, i, sent, fileBefore, unchanged>>

\* save_data, line 41: open(DATA_FILE, "w")
SaveOpen ==
    /\ pc = "save"
    /\ file' = truncated
    /\ pc' = "save_write"
    /\ UNCHANGED <<clock, webhook, existing, today, cleaned, html, base_url,
                   scraped, new_items, updated, i, sent, errors, errorPosts,
                   fileBefore, unchanged>>

\* save_data, line 42: json.dump writes the text piece by piece
SaveWrite ==
    /\ pc = "save_write"
    /\ \E k \in 0..Len(updated) : file' = partial_dump(updated, k)
    /\ pc' = "save_close"
    /\ UNCHANGED <<clock, webhook, existing, today, cleaned, html, base_url,
                   scraped, new_items, updated, i, sent, errors, errorPosts,
                   fileBefore, unchanged>>

\* save_data: the with block ends, the whole text is on disk
SaveClose ==
    /\ pc = "save_close"
    /\ file' = json_dump(updated)
    /\ pc' = "notify"
    /\ UNCHANGED <<clock, webhook, existing, today, cleaned, html, base_url,
                   scraped, new_items, updated, i, sent, errors, errorPosts,
                   fileBefore, unchanged>>

\* main, lines 299-300, and send_discord, lines 200-203
NotifyStart ==
    /\ pc = "notify"
    /\ IF new_items = << >>
       THEN /\ webhook' = webhook
            /\ pc' = "done"
       ELSE /\ webhook' \in BOOLEAN
            /\ pc' = IF webhook' THEN "deliver" ELSE "done"
    /\ i' = 0
    /\ UNCHANGED <<file, clock, existing, today, cleaned, html, base_url,
                   scraped, new_items, updated, sent, errors, errorPosts,
                   fileBefore, unchanged>>

\* after_failed_post that puts the pruned set back on disk
after_failed_post_rollback(f, prior) == json_dump(prior)

\* send_discord, lines 259-260: a refused post is printed
after_failed_post(f, prior) == f

\* send_discord, lines 204-260: one pass of the loop; requests.post answers
\* with a status or raises
Deliver ==
    /\ pc = "deliver"
    /\ i < Len(new_items)
    /\ \E status \in Statuses \cup {Raised} :
        /\ sent' = Append(sent, [embeds |-> embeds_of(chunk(new_items, i)),
                                 status |-> status])
        /\ pc' = IF status = Raised THEN "raised" ELSE "deliver"
        /\ file' = IF status >= 400
                   THEN after_failed_post(file, cleaned)
                   ELSE file
    /\ i' = i + ChunkSize
    /\ UNCHANGED <<clock, webhook, existing, today, cleaned, html, base_url,
                   scraped, new_items, updated, errors, errorPosts, fileBefore,
                   unchanged>>

\* send_discord: the loop ends
SendReturn ==
    /\ pc = "deliver"
    /\ i >= Len(new_items)
    /\ pc' = "done"
    /\ UNCHANGED <<file, clock, webhook, existing, today, cleaned, html,
                   base_url, scraped, new_items, updated, i, sent, errors,
                   errorPosts, fileBefore, unchanged>>

\* the process has ended (main returned or an exception ended it) or is
\* killed at any point; the scheduler starts the next one
EndRun ==
    /\ pc # "idle"
    /\ pc' = "idle"
    /\ webhook' = FALSE
    /\ existing' = << >>
    /\ today' = 0
    /\ cleaned' = << >>
    /\ html' = IF pc = "done" THEN html ELSE << >>
    /\ scraped' = << >>
    /\ new_items' = << >>
    /\ updated' = << >>
    /\ i' = 0
    /\ sent' = << >>
    /\ errors' = << >>
    /\ errorPosts' = << >>
    /\ fileBefore' = file
    /\ unchanged' = FALSE
    /\ UNCHANGED <<file, clock, base_url>>

Next ==
    \/ Tick
    \/ SiteChanges
    \/ LoadAndPrune
    \/ FetchAndReconcile
    \/ FetchFail
    \/ SaveOpen
    \/ SaveWrite
    \/ SaveClose
    \/ NotifyStart
    \/ Deliver
    \/ SendReturn
    \/ EndRun

Spec == Init /\ [][Next]_vars

---------------------------------------------------------------------------
\* The prune step alone, over stored sequences of every shape

InitPrune ==
    /\ file \in {json_dump(items) : items \in SeqsUpTo(StoredItems, MaxExisting)}
    /\ clock \in Days
    /\ webhook = FALSE
    /\ pc = "idle"
    /\ existing = << >>
    /\ today = 0
    /\ cleaned = << >>
    /\ html = << >>
    /\ base_url = URLS[1]
    /\ scraped = << >>
    /\ new_items = << >>
    /\ updated = << >>
    /\ i = 0
    /\ sent = << >>
    /\ errors = << >>
    /\ errorPosts = << >>
    /\ fileBefore = file
    /\ unchanged = FALSE

NextPrune == LoadAndPrune

SpecPrune == InitPrune /\ [][NextPrune]_vars

---------------------------------------------------------------------------
\* extract_contests alone, over bodies of every shape

InitExtract ==
    /\ file = NoFile
    /\ clock \in Days
    /\ webhook = FALSE
    /\ pc = "extract"
    /\ existing = << >>
    /\ today = 0
    /\ cleaned = << >>
    /\ html \in ExtractBodies
    /\ base_url \in {URLS[1], URLS[3]}
    /\ scraped = << >>
    /\ new_items = << >>
    /\ updated = << >>
    /\ i = 0
    /\ sent = << >>
    /\ errors = << >>
    /\ errorPosts = << >>
    /\ fileBefore = NoFile
    /\ unchanged = FALSE

\* main, lines 279-280
Extract ==
    /\ pc = "extract"
    /\ scraped' = extract_contests(html, base_url, filter_sp_of(base_url), clock)
    /\ pc' = "extracted"
    /\ UNCHANGED <<file, clock, webhook, existing, today, cleaned, html,
                   base_url, new_items, updated, i, sent, errors, errorPosts,
                   fileBefore, unchanged>>

NextExtract == Extract

SpecExtract == InitExtract /\ [][NextExtract]_vars

---------------------------------------------------------------------------
\* send_discord alone, over lists of every length

InitSend ==
    /\ file = NoFile
    /\ clock = 0
    /\ webhook = FALSE
    /\ pc = "notify"
    /\ existing = << >>
    /\ today = 0
    /\ cleaned = << >>
    /\ html = << >>
    /\ base_url = URLS[1]
    /\ scraped = << >>
    /\ new_items \in {ItemList(n) : n \in 0..MaxItems}
    /\ updated = << >>
    /\ i = 0
    /\ sent = << >>
    /\ errors = << >>
    /\ errorPosts = << >>
    /\ fileBefore = NoFile
    /\ unchanged = FALSE

NextSend == NotifyStart \/ Deliver \/ SendReturn

SpecSend == InitSend /\ [][NextSend]_vars

---------------------------------------------------------------------------
\* Vocabulary of the properties

\* the title, whitespace-collapsed and case-folded
NormalizeTitle(title) ==
    CASE title \in {Title1, Title2} -> "prefeitura de campinas"
      [] title = "Concurso Guarulhos" -> "concurso guarulhos"
      [] OTHER -> title

\* the identity of a record: (normalized title, endDate)
Identity(r) == <<NormalizeTitle(r.title), r.end_date>>

\* the deadline a text states: the labelled date, or else the first date;
\* none when there is no date or it is no calendar date
Deadline(text) ==
    LET stated == IF text.labelled # << >> THEN text.labelled ELSE text.first
    IN  IF stated # << >> /\ stated[1].valid THEN <<stated[1].day>> ELSE << >>

\* the day a stored item ends, when it has a well-formed endDate
EndDay(item) ==
    IF "end_date" \in DOMAIN item /\ item.end_date.fmt = "iso"
    THEN <<item.end_date.day>>
    ELSE << >>

\* positions of a run after the reconciliation
Reconciled == {"save", "save_write", "save_close", "notify", "deliver", "done", "raised"}

\* positions of a run after save_data has returned
Saved == {"notify", "deliver", "done", "raised"}

RECURSIVE Flatten(_)
Flatten(posts) ==
    IF posts = << >> THEN << >> ELSE Head(posts).embeds \o Flatten(Tail(posts))

---------------------------------------------------------------------------
\* C1.  Records sharing the identity (normalized title, endDate) are persisted
\* once: no two stored records share an identity, and a poll never counts as
\* new a record whose identity is already in the pruned persisted set, even
\* under another link.
C1_FirstSeenOnly ==
    /\ \A j, k \in DOMAIN updated :
           j # k => Identity(updated[j]) # Identity(updated[k])
    /\ \A k \in DOMAIN new_items : \A j \in DOMAIN cleaned :
           Identity(cleaned[j]) # Identity(new_items[k])

---------------------------------------------------------------------------
\* C2.  After a successful fetch the set to save is prune(persistedPrior)
\* united with newlyExtracted, the extracted records whose identity is absent
\* from prune(persistedPrior), and exactly newlyExtracted goes to send_discord.
C2_Reconciliation ==
    pc \in Reconciled =>
        LET pruned == prune(load_data(fileBefore), today)
            newly == SelectSeq(scraped, LAMBDA r :
                         \A j \in DOMAIN pruned : Identity(pruned[j]) # Identity(r))
        IN  /\ Range(updated) = Range(pruned) \cup Range(build_all(newly))
            /\ new_items = newly
            /\ pc \in Saved => Range(load_data(file)) = Range(updated)

---------------------------------------------------------------------------
\* C3.  The prune step drops every stored record whose endDate is before
\* today, keeps every one whose endDate is today or later, and pruning the
\* result again changes nothing.
C3_Prune ==
    pc = "fetch" =>
        /\ \A k \in DOMAIN existing :
               EndDay(existing[k]) # << >> =>
                   (existing[k] \in Range(cleaned) <=> EndDay(existing[k])[1] >= today)
        /\ Range(cleaned) \subseteq Range(existing)
        /\ prune(cleaned, today) = cleaned

C3_Witness ==
    /\ pc = "fetch"
    /\ \E k \in DOMAIN existing :
           EndDay(existing[k]) = <<today>> /\ existing[k] \in Range(cleaned)
    /\ \E k \in DOMAIN existing :
           EndDay(existing[k]) = <<today - 1>> /\ existing[k] \notin Range(cleaned)

---------------------------------------------------------------------------
\* C4.  The updated set is on disk, whole, before the first delivery is
\* attempted; each post is the next chunk, so a refused one is not sent again;
\* a refused post leaves the saved set as it is, the new records in it.
C4_SaveBeforeNotify ==
    /\ (pc = "deliver" \/ sent # << >>) => file = json_dump(updated)
    /\ \A k \in DOMAIN sent :
           /\ (k - 1) * ChunkSize < Len(new_items)
           /\ sent[k].embeds = embeds_of(chunk(new_items, (k - 1) * ChunkSize))
    /\ (\E k \in DOMAIN sent : sent[k].status >= 400) =>
           \A k \in DOMAIN new_items :
               build_persisted_item(new_items[k]) \in Range(load_data(file))

C4_Witness ==
    /\ pc = "done"
    /\ new_items # << >>
    /\ \E k \in DOMAIN sent : sent[k].status >= 400
    /\ file = json_dump(updated)
    /\ file # fileBefore

---------------------------------------------------------------------------
\* C5.  When every endpoint fails the run ends fatally: the one diagnostic
\* lists a reason for each endpoint of URLS in order and is posted once if the
\* webhook is set, no record is notified and the file is as it was before the
\* run, the pruned set unsaved.
C5_AllEndpointsFail ==
    pc = "fatal" =>
        /\ Len(errors) = Len(URLS)
        /\ \A k \in DOMAIN errors :
               /\ errors[k].url = URLS[k]
               /\ errors[k].reason \in
                      {"RequestException", "503", "página sem concursos detectáveis"}
        /\ errorPosts = IF webhook THEN <<errors>> ELSE << >>
        /\ sent = << >>
        /\ new_items = << >>
        /\ file = fileBefore

C5_Witness ==
    /\ pc = "fatal"
    /\ webhook
    /\ errorPosts = <<errors>>
    /\ {errors[k].reason : k \in DOMAIN errors} =
           {"RequestException", "503", "página sem concursos detectáveis"}
    /\ cleaned # existing
    /\ file = json_dump(existing)

---------------------------------------------------------------------------
\* C6.  A poll whose accepted body is byte-identical to the body the poll
\* before it accepted does no extraction and no reconciliation: it ends
\* with nothing extracted, nothing saved and nothing notified.
C6_SkipUnchanged ==
    unchanged =>
        /\ scraped = << >>
        /\ pc \notin {"save", "save_write", "save_close", "notify", "deliver"}
        /\ file = fileBefore
        /\ sent = << >>

---------------------------------------------------------------------------
\* C7.  At every point of a run, what load_data would read from the file on
\* disk, were the process to die there, is the whole sequence from before the
\* save or the whole new one.
C7_AtomicSave ==
    pc # "idle" => load_data(file) \in {load_data(fileBefore), updated}

---------------------------------------------------------------------------
\* C8.  Every extracted record comes from a text that states a deadline, a
\* calendar date not before today; so does every record appended to the
\* persisted set and every record notified.
C8_FreshOnly ==
    pc \in Reconciled =>
        /\ \A k \in DOMAIN scraped :
               /\ Deadline(scraped[k].raw_text) # << >>
               /\ Deadline(scraped[k].raw_text)[1] >= clock
               /\ scraped[k].end_date = [fmt |-> "iso", day |-> Deadline(scraped[k].raw_text)[1]]
        /\ \A k \in DOMAIN html :
               (Deadline(html[k].text) = << >> \/ Deadline(html[k].text)[1] < clock) =>
                   \A j \in DOMAIN scraped : scraped[j].raw_text # html[k].text
        /\ \A k \in DOMAIN updated :
               k > Len(cleaned) =>
                   EndDay(updated[k]) # << >> /\ EndDay(updated[k])[1] >= clock
        /\ \A item \in Range(load_data(file)) \ Range(load_data(fileBefore)) :
               EndDay(item) # << >> /\ EndDay(item)[1] >= clock
        /\ \A k \in DOMAIN sent : \A j \in DOMAIN sent[k].embeds :
               LET value == sent[k].embeds[j].fields[1].value[1]
               IN  value.fmt = "dmy" /\ value.valid /\ value.day >= clock

C8_Witness ==
    /\ pc = "done"
    /\ \E k \in DOMAIN html :
           Deadline(html[k].text) # << >> /\ Deadline(html[k].text)[1] < clock
    /\ scraped = << >>
    /\ file = json_dump(cleaned)
    /\ sent = << >>

---------------------------------------------------------------------------
\* C9.  With the webhook set, the posts of send_discord are the consecutive
\* chunks of 10 of the new records, in order, none longer than 10 and only the
\* last shorter; when send_discord returns every record has gone out in
\* exactly one post, refused posts included.
C9_Chunks ==
    /\ \A k \in DOMAIN sent :
           /\ Len(sent[k].embeds) <= 10
           /\ sent[k].embeds =
                  embeds_of(SubSeq(new_items, 10 * (k - 1) + 1,
                                   Min(10 * k, Len(new_items))))
           /\ k < Len(sent) => Len(sent[k].embeds) = 10
    /\ (pc = "done" /\ webhook) =>
           /\ Flatten(sent) = embeds_of(new_items)
           /\ \A n \in DOMAIN new_items :
                  Cardinality({<<k, j>> \in (DOMAIN sent) \X (1..10) :
                      /\ j <= Len(sent[k].embeds)
                      /\ sent[k].embeds[j].url = new_items[n].link}) = 1

C9_Witness ==
    /\ pc = "done"
    /\ webhook
    /\ Len(new_items) > 20
    /\ Len(sent) = 3
    /\ sent[1].status >= 400
    /\ sent[2].status < 400
    /\ Len(sent[3].embeds) < 10

---------------------------------------------------------------------------
\* C10.  extract_contests returns one record for each link that a located
\* container with a titled hyperlink, the regional marker where required and
\* a deadline not before today resolves to: no two records share a link, a
\* record carries the fields of the last such container of its link, and the
\* records stand in the order in which their links first appear.

Qualifies(c) ==
    /\ c.anchor # << >>
    /\ c.anchor[1].text # ""
    /\ filter_sp_of(base_url) => (c.text.sp \/ c.parent_sp)
    /\ Deadline(c.text) # << >>
    /\ Deadline(c.text)[1] >= clock

\* positions, among the located containers, of those that qualify and resolve
\* to the link
Sources(link) ==
    {k \in DOMAIN locate(html) :
        /\ Qualifies(locate(html)[k])
        /\ urljoin(base_url, locate(html)[k].anchor[1].href) = link}

SetMax(S) == CHOOSE x \in S : \A y \in S : y <= x

SetMin(S) == CHOOSE x \in S : \A y \in S : x <= y

C10_OnePerLink ==
    pc = "extracted" =>
        /\ \A k \in DOMAIN locate(html) :
               Qualifies(locate(html)[k]) =>
                   Cardinality({j \in DOMAIN scraped :
                       scraped[j].link =
                           urljoin(base_url, locate(html)[k].anchor[1].href)}) = 1
        /\ \A j, k \in DOMAIN scraped : j # k => scraped[j].link # scraped[k].link
        /\ \A j \in DOMAIN scraped :
               /\ Sources(scraped[j].link) # {}
               /\ LET last == locate(html)[SetMax(Sources(scraped[j].link))]
                  IN  /\ scraped[j].title = last.anchor[1].text
                      /\ scraped[j].raw_text = last.text
                      /\ scraped[j].vacancies = last.text.vacancies
                      /\ scraped[j].end_date =
                             [fmt |-> "iso", day |-> Deadline(last.text)[1]]
        /\ \A j, k \in DOMAIN scraped :
               j < k => SetMin(Sources(scraped[j].link)) < SetMin(Sources(scraped[k].link))

C10_Witness ==
    /\ pc = "extracted"
    /\ Len(scraped) = 2
    /\ Len(locate(html)) = 3
    /\ Sources(scraped[1].link) = {1, 3}
    /\ Sources(scraped[2].link) = {2}
    /\ locate(html)[1].anchor[1].text # locate(html)[3].anchor[1].text
    /\ scraped[1].title = locate(html)[3].anchor[1].text

====
